---- MODULE Spec2Model ----
(***************************************************************************)
(* Model of struct Point (include/geometry.hpp): a 3-tuple of doubles with *)
(* component-wise arithmetic, dot/cross products, three norms and an       *)
(* in-place 4x4 affine transform.                                          *)
(*                                                                         *)
(* A double is modelled by an integer: the inputs are integer-valued       *)
(* doubles small enough that every +, -, * below is exact in IEEE-754      *)
(* binary64, and a division is taken only where the quotient is exact.     *)
(* Rounding, overflow, infinities and NaN are outside this domain.         *)
(* std::sqrt keeps its argument (see Sqrt) and is compared by squaring.    *)
(*                                                                         *)
(* A Point instance is a cell of xyz; a mutating member function runs as   *)
(* a sequence of steps, one per coordinate assignment of its body, so      *)
(* that two threads' operations interleave at that grain.                  *)
(***************************************************************************)
EXTENDS Integers, Sequences, FiniteSets, TLC

VARIABLES xyz, xyz0, pc, frame, loc, ret, hist, pure

vars == <<xyz, xyz0, pc, frame, loc, ret, hist, pure>>

-----------------------------------------------------------------------------
(* Bounds of the model *)

MaxCoord == 1
MaxOps == 2
MaxParOps == 1

Coord == (0 - MaxCoord)..MaxCoord
Points == {<<x, y, z>> : x \in Coord, y \in Coord, z \in Coord}
ArgPoints == {<<1, 2, 3>>, <<MaxCoord, 0, 0 - 2>>}
ParPoints == {<<2, 0 - 2, 4>>, <<0 - 1, 1, 3>>}
Scalars == {0 - 1, 2}

Zero == <<0, 0, 0>>

(* The matrices are assembled from a 3x3 linear part with a translation
   column (identity, a quarter turn about z, a shear with scaling) and a
   bottom row, affine or not. *)
Identity3 == << <<1, 0, 0>>, <<0, 1, 0>>, <<0, 0, 1>> >>
QuarterTurn == << <<0, 0 - 1, 0>>, <<1, 0, 0>>, <<0, 0, 1>> >>
Shear == << <<2, 1, 0>>, <<0, 1, 0 - 1>>, <<1, 0, 3>> >>
Blocks ==
  { <<Identity3, <<0, 0, 0>> >>,
    <<Identity3, <<2, 0, 0>> >>,
    <<Identity3, <<1, 0 - 1, 3>> >>,
    <<QuarterTurn, <<2, 0, 0>> >>,
    <<Shear, <<1, 0 - 1, 3>> >> }
AffineRow3 == <<0, 0, 0, 1>>
Row3 == {AffineRow3, <<2, 0, 1, 3>>}

Mat(l, t, w) ==
  << <<l[1][1], l[1][2], l[1][3], t[1]>>,
     <<l[2][1], l[2][2], l[2][3], t[2]>>,
     <<l[3][1], l[3][2], l[3][3], t[3]>>,
     w >>
Matrices == {Mat(b[1], b[2], w) : b \in Blocks, w \in Row3}
IdentityM == Mat(Identity3, Zero, AffineRow3)

-----------------------------------------------------------------------------
(* Threads and the Point instances each one owns *)

Threads == {1, 2}
Obj == {"p1", "q1", "r1", "t1", "p2", "q2", "r2", "t2"}
This(t) == IF t = 1 THEN "p1" ELSE "p2"
ArgObjs(t) == IF t = 1 THEN {"p1", "q1", "r1"} ELSE {"p2", "q2", "r2"}
Temp(o) == IF o \in {"p1", "q1", "r1", "t1"} THEN "t1" ELSE "t2"

(* All calls keep new_x, new_y, new_z in one static storage. *)
FrameStatic(t) == 1

(* The automatic storage a call of thread t uses for new_x, new_y, new_z. *)
Frame(t) == t

(* The function returns a Point by value: the handle is a temporary. *)
ThisCopy(o) == Temp(o)

(* return *this of a Point& function: the handle is the receiver itself. *)
ThisRef(o) == o

-----------------------------------------------------------------------------
(* Scalar helpers *)

(* std::abs on a double. *)
Abs(a) == IF a < 0 THEN 0 - a ELSE a

(* std::max on two doubles. *)
Max(a, b) == IF a < b THEN b ELSE a

(* std::sqrt: the non-negative real whose square is s, kept by its square. *)
Sqrt(s) == [sq |-> s]

(* a / d for d # 0 where the quotient is exact. *)
Quot(a, d) == CHOOSE k \in (0 - Abs(a))..Abs(a) : k * d = a

Divides(d, c) == d # 0 /\ \A i \in 1..3 : \E k \in (0 - Abs(c[i]))..Abs(c[i]) : k * d = c[i]

-----------------------------------------------------------------------------
(* Constructors, binary operators and metric operations: pure functions of
   the coordinate arrays of the receiver c and the argument p. *)

Point3(x, y, z) == <<x, y, z>>

(* The displacement taken from b to a. *)
Point2Reversed(a, b) == <<a[1] - b[1], a[2] - b[2], a[3] - b[3]>>

Point2(a, b) == <<b[1] - a[1], b[2] - a[2], b[3] - a[3]>>

plus(c, p) == Point3(c[1] + p[1], c[2] + p[2], c[3] + p[3])

minus(c, p) == Point3(c[1] - p[1], c[2] - p[2], c[3] - p[3])

times(c, d) == Point3(c[1] * d, c[2] * d, c[3] * d)

divide(c, d) == Point3(Quot(c[1], d), Quot(c[2], d), Quot(c[3], d))

dot(c, p) == c[1] * p[1] + c[2] * p[2] + c[3] * p[3]

(* The left-handed product. *)
crossLeft(c, p) ==
  <<p[2] * c[3] - c[2] * p[3], p[3] * c[1] - c[3] * p[1], p[1] * c[2] - c[1] * p[2]>>

(* The second component added instead of subtracted. *)
crossPlus(c, p) ==
  <<c[2] * p[3] - p[2] * c[3], c[3] * p[1] + p[3] * c[1], c[1] * p[2] - p[1] * c[2]>>

cross(c, p) ==
  Point3(c[2] * p[3] - p[2] * c[3],
         c[3] * p[1] - p[3] * c[1],
         c[1] * p[2] - p[1] * c[2])

(* The sum of the coordinates, without std::abs. *)
norm1Signed(c) == c[1] + c[2] + c[3]

norm1(c) == Abs(c[1]) + Abs(c[2]) + Abs(c[3])

norm2(c) == Sqrt(c[1] * c[1] + c[2] * c[2] + c[3] * c[3])

normInf(c) == Max(Abs(c[1]), Max(Abs(c[2]), Abs(c[3])))

-----------------------------------------------------------------------------
(* Bodies of the mutating member functions, one coordinate assignment at a
   time.  k counts the assignments already done; indices are 1-based here. *)

(* xyz[k] += p.xyz[k] *)
plus_assign(c, a, k) == [c EXCEPT ![k + 1] = c[k + 1] + a[k + 1]]

(* Every coordinate reduced by p.xyz[0]. *)
minus_assign_first(c, a, k) == [c EXCEPT ![k + 1] = c[k + 1] - a[1]]

(* xyz[k] -= p.xyz[k] *)
minus_assign(c, a, k) == [c EXCEPT ![k + 1] = c[k + 1] - a[k + 1]]

(* xyz[k] *= d *)
times_assign(c, d, k) == [c EXCEPT ![k + 1] = c[k + 1] * d]

(* xyz[k] /= d *)
divide_assign(c, d, k) == [c EXCEPT ![k + 1] = Quot(c[k + 1], d)]

(* The matrix indexed column-major. *)
AffineRowTransposed(c, m, i) ==
  c[1] * m[1][i] + c[2] * m[2][i] + c[3] * m[3][i] + m[4][i]

(* new_z takes its translation from m[3][3]. *)
AffineRowSlip(c, m, i) ==
  c[1] * m[i][1] + c[2] * m[i][2] + c[3] * m[i][3] + m[IF i = 3 THEN 4 ELSE i][4]

(* The right-hand side of new_x (i = 1), new_y (i = 2), new_z (i = 3). *)
AffineRow(c, m, i) == c[1] * m[i][1] + c[2] * m[i][2] + c[3] * m[i][3] + m[i][4]

(* Each new coordinate stored into the receiver as soon as computed. *)
transform_in_place(c, l, m, k) ==
  IF k < 3
  THEN <<[c EXCEPT ![k + 1] = AffineRow(c, m, k + 1)], l>>
  ELSE <<c, l>>

(* transform: steps 0..2 initialise new_x, new_y, new_z from the receiver;
   steps 3..5 store them into xyz[0], xyz[1], xyz[2].  Gives the pair
   <<coordinates, locals>> after step k. *)
transform_line(c, l, m, k) ==
  IF k < 3
  THEN <<c, [l EXCEPT ![k + 1] = AffineRow(c, m, k + 1)]>>
  ELSE <<[c EXCEPT ![k - 2] = l[k - 2]], l>>

(* double& operator[](i) / x() / y() / z() followed by the caller's write *)
set_coord(c, i, v) == [c EXCEPT ![i] = v]

-----------------------------------------------------------------------------
(* State.
   xyz[o]    the coordinate array of Point instance o
   xyz0[o]   its value after construction (history, never read by the code)
   pc[t]     <<function thread t is in, coordinate assignments done>>
   frame[t]  the parameters of that call: this, the argument p (a reference),
             d, m, and what this and p held when the call began (history)
   loc[f]    new_x, new_y, new_z of transform in automatic storage f
   ret[t]    the reference the last call of thread t returned
   hist[t]   the calls thread t has completed, each with whether another
             thread was inside a call when it returned (history)
   pure      the last call of a const member function or constructor, with
             its result *)

Idle == <<"idle", 0>>

NoFrame(t) ==
  [this |-> This(t), p |-> This(t), d |-> 0, m |-> IdentityM, i |-> 1, pre |-> Zero,
   a |-> Zero]

NoCall == [op |-> "none", a |-> Zero, b |-> Zero, d |-> 0, out |-> Zero]

InitWith(P1, P2, Q, R) ==
  /\ xyz \in {[o \in Obj |-> CASE o = "p1" -> c1
                               [] o = "p2" -> c2
                               [] o \in {"q1", "q2"} -> q
                               [] o \in {"r1", "r2"} -> r
                               [] OTHER -> Zero] :
               c1 \in P1, c2 \in P2, q \in Q, r \in R}
  /\ xyz0 = xyz
  /\ pc = [t \in Threads |-> Idle]
  /\ frame = [t \in Threads |-> NoFrame(t)]
  /\ loc = [t \in Threads |-> Zero]
  /\ ret = [t \in Threads |-> This(t)]
  /\ hist = [t \in Threads |-> <<>>]
  /\ pure = NoCall

(* The receiver of the next call of thread t: its own instance, or, chained
   on a previous call, the reference that call returned. *)
Receiver(t) == IF hist[t] = <<>> THEN This(t) ELSE ret[t]

Enter(t, op, f) ==
  /\ pc' = [pc EXCEPT ![t] = <<op, 0>>]
  /\ frame' = [frame EXCEPT ![t] = f]
  /\ UNCHANGED <<xyz, xyz0, loc, ret, hist, pure>>

NewFrame(t, p, d, m, i) ==
  [this |-> Receiver(t), p |-> p, d |-> d, m |-> m, i |-> i,
   pre |-> xyz[Receiver(t)], a |-> xyz[p]]

(* p op= q with q a reference to a Point of the calling thread *)
CallPointAssign(t, ps, max) ==
  /\ pc[t] = Idle
  /\ Len(hist[t]) < max
  /\ \E op \in {"+=", "-="}, p \in ps :
       Enter(t, op, NewFrame(t, p, 0, IdentityM, 1))

(* p op= d *)
CallScalarAssign(t, ds, max) ==
  /\ pc[t] = Idle
  /\ Len(hist[t]) < max
  /\ \E op \in {"*=", "/="}, d \in ds :
       /\ op = "/=" => Divides(d, xyz[Receiver(t)])
       /\ Enter(t, op, NewFrame(t, Receiver(t), d, IdentityM, 1))

(* p.transform(m) *)
CallTransform(t, ms, max) ==
  /\ pc[t] = Idle
  /\ Len(hist[t]) < max
  /\ \E m \in ms : Enter(t, "transform", NewFrame(t, Receiver(t), 0, m, 1))

Step(t, c) ==
  /\ xyz' = [xyz EXCEPT ![frame[t].this] = c]
  /\ pc' = [pc EXCEPT ![t] = <<pc[t][1], pc[t][2] + 1>>]
  /\ UNCHANGED <<xyz0, frame, loc, ret, hist, pure>>

PlusAssign(t) ==
  /\ pc[t][1] = "+=" /\ pc[t][2] < 3
  /\ Step(t, plus_assign(xyz[frame[t].this], xyz[frame[t].p], pc[t][2]))

MinusAssign(t) ==
  /\ pc[t][1] = "-=" /\ pc[t][2] < 3
  /\ Step(t, minus_assign(xyz[frame[t].this], xyz[frame[t].p], pc[t][2]))

TimesAssign(t) ==
  /\ pc[t][1] = "*=" /\ pc[t][2] < 3
  /\ Step(t, times_assign(xyz[frame[t].this], frame[t].d, pc[t][2]))

DivideAssign(t) ==
  /\ pc[t][1] = "/=" /\ pc[t][2] < 3
  /\ Step(t, divide_assign(xyz[frame[t].this], frame[t].d, pc[t][2]))

Transform(t) ==
  /\ pc[t][1] = "transform" /\ pc[t][2] < 6
  /\ LET r == transform_line(xyz[frame[t].this], loc[Frame(t)], frame[t].m, pc[t][2])
     IN /\ xyz' = [xyz EXCEPT ![frame[t].this] = r[1]]
        /\ loc' = [loc EXCEPT ![Frame(t)] = r[2]]
  /\ pc' = [pc EXCEPT ![t] = <<pc[t][1], pc[t][2] + 1>>]
  /\ UNCHANGED <<xyz0, frame, ret, hist, pure>>

Record(t, op) ==
  [op |-> op, this |-> frame[t].this, p |-> frame[t].p, pre |-> frame[t].pre,
   a |-> frame[t].a, d |-> frame[t].d, m |-> frame[t].m, i |-> frame[t].i,
   conc |-> \E u \in Threads \ {t} : pc[u] # Idle]

(* return *this; *)
Return(t) ==
  /\ \/ pc[t][1] \in {"+=", "-=", "*=", "/="} /\ pc[t][2] = 3
     \/ pc[t][1] = "transform" /\ pc[t][2] = 6
  /\ xyz' = [xyz EXCEPT ![ThisRef(frame[t].this)] = xyz[frame[t].this]]
  /\ ret' = [ret EXCEPT ![t] = ThisRef(frame[t].this)]
  /\ hist' = [hist EXCEPT ![t] = Append(@, Record(t, pc[t][1]))]
  /\ pc' = [pc EXCEPT ![t] = Idle]
  /\ UNCHANGED <<xyz0, frame, loc, pure>>

(* p[i] = v, p.x() = v, p.y() = v, p.z() = v: one store through the
   reference the mutable accessor returns *)
SetCoord(t, is, vs, max) ==
  /\ pc[t] = Idle
  /\ Len(hist[t]) < max
  /\ \E i \in is, v \in vs :
       LET f == NewFrame(t, This(t), v, IdentityM, i)
       IN /\ xyz' = [xyz EXCEPT ![This(t)] = set_coord(@, i, v)]
          /\ hist' = [hist EXCEPT ![t] =
                        Append(@, [op |-> "set", this |-> This(t), p |-> This(t),
                                   pre |-> xyz[This(t)], a |-> xyz[This(t)],
                                   d |-> v, m |-> IdentityM, i |-> i,
                                   conc |-> \E u \in Threads \ {t} : pc[u] # Idle])]
  /\ UNCHANGED <<xyz0, pc, frame, loc, ret, pure>>

-----------------------------------------------------------------------------
(* Calls of the constructors and const member functions *)

Eval(op, a, b, d, out) ==
  /\ pure' = [op |-> op, a |-> a, b |-> b, d |-> d, out |-> out]
  /\ UNCHANGED <<xyz, xyz0, pc, frame, loc, ret, hist>>

(* The receiver (or first argument) and the argument of the call. *)
RecvP == xyz["p1"]
ArgP == xyz["q1"]

EvalPoint2 == Eval("Point2", RecvP, ArgP, 0, Point2(RecvP, ArgP))
EvalPlus == Eval("+", RecvP, ArgP, 0, plus(RecvP, ArgP))
EvalMinus == Eval("-", RecvP, ArgP, 0, minus(RecvP, ArgP))
EvalTimes == \E d \in Scalars : Eval("*", RecvP, ArgP, d, times(RecvP, d))
EvalDivide ==
  \E d \in Scalars : Divides(d, RecvP) /\ Eval("/", RecvP, ArgP, d, divide(RecvP, d))
EvalDot == Eval("dot", RecvP, ArgP, 0, dot(RecvP, ArgP))
EvalCross == Eval("cross", RecvP, ArgP, 0, cross(RecvP, ArgP))
EvalNorm1 == Eval("norm1", RecvP, ArgP, 0, norm1(RecvP))
EvalNorm2 == Eval("norm2", RecvP, ArgP, 0, norm2(RecvP))
EvalNormInf == Eval("normInf", RecvP, ArgP, 0, normInf(RecvP))

-----------------------------------------------------------------------------
(* Specifications *)

(* One thread chaining transforms on one Point. *)
InitTransform == InitWith(Points, {Zero}, {Zero}, {Zero})
NextTransform == CallTransform(1, Matrices, MaxOps) \/ Transform(1) \/ Return(1)
SpecTransform == InitTransform /\ [][NextTransform]_vars

(* One thread chaining in-place operators on one Point. *)
InitAssign == InitWith(Points, {Zero}, ArgPoints, ArgPoints)
NextAssign ==
  \/ CallPointAssign(1, ArgObjs(1), MaxOps)
  \/ CallScalarAssign(1, Scalars, MaxOps)
  \/ PlusAssign(1)
  \/ MinusAssign(1)
  \/ TimesAssign(1)
  \/ DivideAssign(1)
  \/ Return(1)
SpecAssign == InitAssign /\ [][NextAssign]_vars

(* Two threads, each mutating its own Point, interleaved step by step. *)
ParMatrices == {Mat(Shear, <<1, 0 - 1, 3>>, w) : w \in Row3}
ParArg(t) == IF t = 1 THEN "q1" ELSE "q2"
InitPar == InitWith(ParPoints, {<<2, 0 - 2, 4>>}, {<<1, 2, 3>>}, {Zero})
NextPar ==
  \E t \in Threads :
    \/ CallPointAssign(t, {ParArg(t)}, MaxParOps)
    \/ CallScalarAssign(t, {2}, MaxParOps)
    \/ CallTransform(t, ParMatrices, MaxParOps)
    \/ SetCoord(t, {3}, {0 - 1}, MaxParOps)
    \/ PlusAssign(t)
    \/ MinusAssign(t)
    \/ TimesAssign(t)
    \/ DivideAssign(t)
    \/ Transform(t)
    \/ Return(t)
SpecPar == InitPar /\ [][NextPar]_vars

(* Calls of the pure functions on two arbitrary points. *)
InitPure == InitWith(Points, {Zero}, Points, {Zero})
NextPure ==
  \/ EvalPoint2
  \/ EvalPlus
  \/ EvalMinus
  \/ EvalTimes
  \/ EvalDivide
  \/ EvalDot
  \/ EvalCross
  \/ EvalNorm1
  \/ EvalNorm2
  \/ EvalNormInf
SpecPure == InitPure /\ [][NextPure]_vars

-----------------------------------------------------------------------------
(* A member function run from entry to return with nothing in between. *)

(* The compound assignment k of in-place operator op; x is the argument's
   coordinate array for += and -=, the scalar for *= and /=. *)
assign_step(op, c, x, k) ==
  CASE op = "+=" -> plus_assign(c, x, k)
    [] op = "-=" -> minus_assign(c, x, k)
    [] op = "*=" -> times_assign(c, x, k)
    [] op = "/=" -> divide_assign(c, x, k)

(* The three compound assignments of an in-place operator, in order; the
   argument is read again at each one, and is the receiver itself when the
   call is p op= p. *)
RunAssign(op, c, a, self) ==
  LET c1 == assign_step(op, c, IF self THEN c ELSE a, 0)
      c2 == assign_step(op, c1, IF self THEN c1 ELSE a, 1)
  IN assign_step(op, c2, IF self THEN c2 ELSE a, 2)

RunTransform(c, m) ==
  LET s1 == transform_line(c, Zero, m, 0)
      s2 == transform_line(s1[1], s1[2], m, 1)
      s3 == transform_line(s2[1], s2[2], m, 2)
      s4 == transform_line(s3[1], s3[2], m, 3)
      s5 == transform_line(s4[1], s4[2], m, 4)
      s6 == transform_line(s5[1], s5[2], m, 5)
  IN s6[1]

(* The call recorded as h, run on a receiver holding c. *)
RunCall(c, h) ==
  CASE h.op \in {"+=", "-="} -> RunAssign(h.op, c, h.a, h.p = h.this)
    [] h.op \in {"*=", "/="} -> RunAssign(h.op, c, h.d, FALSE)
    [] h.op = "transform" -> RunTransform(c, h.m)
    [] h.op = "set" -> set_coord(c, h.i, h.d)

RECURSIVE Serial(_, _)
Serial(c, hs) == IF hs = <<>> THEN c ELSE Serial(RunCall(c, Head(hs)), Tail(hs))

-----------------------------------------------------------------------------
(* Vocabulary of the properties *)

Last(t) == hist[t][Len(hist[t])]
Returned(t, op) == pc[t] = Idle /\ hist[t] # <<>> /\ Last(t).op = op
Neg(c) == <<0 - c[1], 0 - c[2], 0 - c[3]>>
LinearIsIdentity(m) ==
  \A i \in 1..3, j \in 1..3 : m[i][j] = (IF i = j THEN 1 ELSE 0)
Column3(m) == <<m[1][4], m[2][4], m[3][4]>>
SameRows012(m, n) == m[1] = n[1] /\ m[2] = n[2] /\ m[3] = n[3]
MatMul(m, n) ==
  [i \in 1..4 |-> [j \in 1..4 |->
     m[i][1] * n[1][j] + m[i][2] * n[2][j] + m[i][3] * n[3][j] + m[i][4] * n[4][j]]]

-----------------------------------------------------------------------------
(* Properties of transform *)

(* C1: after p.transform(m) the receiver holds
   (x*m00 + y*m01 + z*m02 + m03, x*m10 + y*m11 + z*m12 + m13,
    x*m20 + y*m21 + z*m22 + m23), with x, y, z the coordinates it held
   before the call in all three components. *)
C1_TransformFormula ==
  Returned(1, "transform") =>
    LET m == Last(1).m
        x == Last(1).pre[1]
        y == Last(1).pre[2]
        z == Last(1).pre[3]
    IN xyz[Last(1).this] =
         << x * m[1][1] + y * m[1][2] + z * m[1][3] + m[1][4],
            x * m[2][1] + y * m[2][2] + z * m[2][3] + m[2][4],
            x * m[3][1] + y * m[3][2] + z * m[3][3] + m[3][4] >>

(* A transform has returned whose new z depends on the old x, and which
   changed x. *)
C1_Witness ==
  /\ Returned(1, "transform")
  /\ Last(1).m[3][1] # 0
  /\ Last(1).pre[1] # 0
  /\ xyz[Last(1).this][1] # Last(1).pre[1]

(* C2: row 3 of the matrix is never consulted: two transforms of equal
   points by matrices that agree on rows 0, 1, 2 leave equal coordinates,
   whatever the two bottom rows are. *)
C2_Row3Ignored ==
  ( /\ Returned(1, "transform")
    /\ Returned(2, "transform")
    /\ Last(1).pre = Last(2).pre
    /\ SameRows012(Last(1).m, Last(2).m) )
  => xyz[Last(1).this] = xyz[Last(2).this]

(* Both transforms have returned, from the same point, under matrices that
   differ in row 3 only, one of them with a bottom row other than 0 0 0 1. *)
C2_Witness ==
  /\ Returned(1, "transform")
  /\ Returned(2, "transform")
  /\ Last(1).pre = Last(2).pre
  /\ SameRows012(Last(1).m, Last(2).m)
  /\ Last(1).m[4] = AffineRow3
  /\ Last(2).m[4] # AffineRow3
  /\ xyz[Last(1).this] # Last(1).pre

(* C3: under a matrix whose top-left 3x3 block is the identity and whose
   last column is t, transform leaves p + t; the identity matrix leaves p
   unchanged; Point(1,1,1) with last column (2,0,0) becomes Point(3,1,1). *)
C3_Translation ==
  (Returned(1, "transform") /\ LinearIsIdentity(Last(1).m)) =>
    /\ xyz[Last(1).this] = plus(Last(1).pre, Column3(Last(1).m))
    /\ Column3(Last(1).m) = Zero => xyz[Last(1).this] = Last(1).pre
    /\ (Last(1).pre = <<1, 1, 1>> /\ Column3(Last(1).m) = <<2, 0, 0>>)
         => xyz[Last(1).this] = <<3, 1, 1>>

(* Point(1,1,1) has been translated by (2,0,0). *)
C3_Witness ==
  /\ Returned(1, "transform")
  /\ LinearIsIdentity(Last(1).m)
  /\ Last(1).pre = <<1, 1, 1>>
  /\ Column3(Last(1).m) = <<2, 0, 0>>
  /\ xyz["p1"] = <<3, 1, 1>>

(* C10: p.transform(m1).transform(m2), with row 3 of m1 equal to 0 0 0 1,
   leaves p as a single p.transform(m2*m1) would. *)
C10_ChainComposes ==
  ( /\ pc[1] = Idle
    /\ Len(hist[1]) = 2
    /\ hist[1][1].m[4] = AffineRow3 )
  => xyz[This(1)] = RunTransform(xyz0[This(1)], MatMul(hist[1][2].m, hist[1][1].m))

(* Two chained transforms have returned whose matrices do not commute on
   the point, the second with a bottom row other than 0 0 0 1. *)
C10_Witness ==
  /\ pc[1] = Idle
  /\ Len(hist[1]) = 2
  /\ hist[1][1].m[4] = AffineRow3
  /\ hist[1][2].m[4] # AffineRow3
  /\ xyz[This(1)] # RunTransform(xyz0[This(1)], MatMul(hist[1][1].m, hist[1][2].m))
  /\ xyz[This(1)] # hist[1][2].pre

-----------------------------------------------------------------------------
(* Properties of the in-place operators *)

(* What the binary operator matching the in-place operator of call h gives
   on the receiver's pre-call value and the argument. *)
Binary(h) ==
  CASE h.op = "+=" -> plus(h.pre, h.a)
    [] h.op = "-=" -> minus(h.pre, h.a)
    [] h.op = "*=" -> times(h.pre, h.d)
    [] h.op = "/=" -> divide(h.pre, h.d)

(* C8: an in-place operator leaves in the receiver what the matching binary
   operator gives on its pre-call value and the argument, and returns the
   receiver itself; (p += q) += r leaves p0 + q + r in p, and q and r keep
   their values. *)
C8_InPlace ==
  /\ (pc[1] = Idle /\ hist[1] # <<>>) =>
       /\ xyz[Last(1).this] = Binary(Last(1))
       /\ ret[1] = This(1)
       /\ Last(1).this = This(1)
  /\ ( /\ pc[1] = Idle
       /\ Len(hist[1]) = 2
       /\ hist[1][1].op = "+=" /\ hist[1][1].p = "q1"
       /\ hist[1][2].op = "+=" /\ hist[1][2].p = "r1" )
     => xyz["p1"] = plus(plus(xyz0["p1"], xyz0["q1"]), xyz0["r1"])
  /\ xyz["q1"] = xyz0["q1"]
  /\ xyz["r1"] = xyz0["r1"]

(* (p += q) += r has returned with q # r, both nonzero. *)
C8_Witness ==
  /\ pc[1] = Idle
  /\ Len(hist[1]) = 2
  /\ hist[1][1].op = "+=" /\ hist[1][1].p = "q1"
  /\ hist[1][2].op = "+=" /\ hist[1][2].p = "r1"
  /\ xyz["q1"] # xyz["r1"]
  /\ xyz["p1"] = plus(plus(xyz0["p1"], xyz0["q1"]), xyz0["r1"])
  /\ xyz["p1"] # plus(xyz0["p1"], xyz0["q1"])

-----------------------------------------------------------------------------
(* Properties of two threads on distinct instances *)

(* C9: whenever a thread is between calls, its instance holds what its
   calls give when run one after the other with nothing in between,
   whatever the other thread is doing or has done; the other Points of
   the thread keep their values. *)
C9_DistinctInstances ==
  \A t \in Threads :
    /\ pc[t] = Idle => xyz[This(t)] = Serial(xyz0[This(t)], hist[t])
    /\ \A o \in ArgObjs(t) \ {This(t)} : xyz[o] = xyz0[o]

(* Each thread has returned from a transform that began before the other
   one returned, and both instances changed. *)
C9_Witness ==
  /\ Returned(1, "transform")
  /\ Returned(2, "transform")
  /\ Last(1).conc \/ Last(2).conc
  /\ xyz["p1"] # xyz0["p1"]
  /\ xyz["p2"] # xyz0["p2"]
  /\ loc[1] # loc[2]

-----------------------------------------------------------------------------
(* Properties of the constructors and const member functions *)

(* C4: Point(a, b) has the coordinates of b - a: component i is
   b[i] - a[i]. *)
C4_Point2IsDifference ==
  pure.op = "Point2" =>
    /\ pure.out = minus(pure.b, pure.a)
    /\ \A i \in 1..3 : pure.out[i] = pure.b[i] - pure.a[i]

(* Point(a, b) has been built from points with b - a # a - b. *)
C4_Witness ==
  /\ pure.op = "Point2"
  /\ pure.out # minus(pure.a, pure.b)
  /\ pure.out = minus(pure.b, pure.a)

(* C5: p.cross(q) is (p.y*q.z - q.y*p.z, p.z*q.x - q.z*p.x,
   p.x*q.y - q.x*p.y); Point(1,0,0).cross(Point(0,1,0)) is Point(0,0,1). *)
C5_CrossFormula ==
  pure.op = "cross" =>
    LET p == pure.a
        q == pure.b
    IN /\ pure.out = << p[2] * q[3] - q[2] * p[3],
                        p[3] * q[1] - q[3] * p[1],
                        p[1] * q[2] - q[1] * p[2] >>
       /\ (p = <<1, 0, 0>> /\ q = <<0, 1, 0>>) => pure.out = <<0, 0, 1>>

(* Point(1,0,0).cross(Point(0,1,0)) has been evaluated. *)
C5_Witness ==
  /\ pure.op = "cross"
  /\ pure.a = <<1, 0, 0>>
  /\ pure.b = <<0, 1, 0>>
  /\ pure.out = <<0, 0, 1>>

(* C6: every component of p.cross(q) is the negation of that of
   q.cross(p), and p.cross(p) is the zero vector. *)
C6_CrossAntisymmetric ==
  pure.op = "cross" =>
    /\ \A i \in 1..3 : pure.out[i] = 0 - cross(pure.b, pure.a)[i]
    /\ pure.a = pure.b => pure.out = Zero

(* A cross product with three nonzero components has been evaluated. *)
C6_Witness ==
  /\ pure.op = "cross"
  /\ \A i \in 1..3 : pure.out[i] # 0
  /\ pure.out = Neg(cross(pure.b, pure.a))

(* C7: normInf(p) <= norm2(p) <= norm1(p), norm2(p) >= 0 and
   norm2(zero) = 0; norm2(p) being the non-negative root of
   x^2 + y^2 + z^2, the order is that of the squares of the non-negative
   normInf(p) and norm1(p). *)
C7_NormOrder ==
  pure.op = "norm2" =>
    LET s == pure.out.sq
        i == normInf(pure.a)
        o == norm1(pure.a)
    IN /\ s >= 0
       /\ pure.a = Zero => s = 0
       /\ i >= 0 /\ i * i <= s
       /\ o >= 0 /\ s <= o * o

(* norm2 has been evaluated on a point where both inequalities are
   strict and a coordinate is negative. *)
C7_Witness ==
  /\ pure.op = "norm2"
  /\ \E k \in 1..3 : pure.a[k] < 0
  /\ normInf(pure.a) * normInf(pure.a) < pure.out.sq
  /\ pure.out.sq < norm1(pure.a) * norm1(pure.a)

====
